---- MODULE Spec2Model ----
(***************************************************************************)
(* A model of the StockfishEmbedded bridge: ThreadSafeQueue<T>, the        *)
(* CommandStreambuf input adapter, the LineBufferStreambuf output adapter  *)
(* and the SFEngine lifecycle that ties them to one worker thread.         *)
(***************************************************************************)
EXTENDS Integers, Sequences, FiniteSets, TLC

(***************************************************************************)
(* Bounds of the model.                                                    *)
(***************************************************************************)
\* total number of push calls the producers issue
MaxPush == 3
\* number of distinct abstract items a producer may push
NumItems == 2
\* total number of close calls
MaxClose == 2
\* longest command string a producer pushes to the input adapter
MaxLen == 2
\* total number of commands pushed to the input adapter
MaxCmd == 2
\* characters a reader may take past the end of the get area
MaxOverread == 1
\* total number of characters written to and syncs of the output adapter
MaxWrite == 5
\* total number of sendCommand calls the host makes
MaxSend == 2
\* total number of commands the engine answers with output
MaxAnswers == 1
\* total number of push calls when several consumers share the queue
MaxFeed == 2

(***************************************************************************)
(* Threads.                                                                *)
(***************************************************************************)
Producers == {"p1", "p2"}
Closers == {"cl"}
Consumers == {"c1"}
Consumer == "c1"
Workers == {"w"}
\* the threads that pop when several consumers share the queue
Poppers == {"c1", "c2"}
Threads == Producers \cup Closers \cup Consumers \cup Workers \cup Poppers
NoThread == "none"
\* a moved-from or default-constructed T
NoValue == <<>>
\* the values of T the producers push
Items == {<<i>> : i \in 1 .. NumItems}

(***************************************************************************)
(* Characters and strings.                                                 *)
(***************************************************************************)
NL == "\n"
CR == "\r"
\* the terminator std::string keeps at data()[size()]
NUL == "\\0"
\* traits_type::eof()
EOFch == "EOF"
NoChar == "none"
\* the characters producers put in commands
InChars == {"a", NL}

RECURSIVE StringsOfLen(_, _)
StringsOfLen(A, n) ==
    IF n = 0 THEN {<<>>}
    ELSE {Append(s, c) : s \in StringsOfLen(A, n - 1), c \in A}

StringsUpTo(A, n) == UNION {StringsOfLen(A, k) : k \in 0 .. n}

\* the std::string values pushed to the input adapter's queue
Strings == StringsUpTo(InChars, MaxLen)

VARIABLES
    \* ThreadSafeQueue members
    queue_, closed_, mutex_, cv_,
    \* per-thread position, push argument, pop out-parameter, pop result
    pc, arg, out, ret,
    \* observers (history): values of the pushes that took the lock on an open
    \* queue, in lock order; values returned by pop; whether a pop has returned
    \* false; number of push and close calls issued; number of pushes dropped
    \* on a closed queue; the items queued and the items already handed out
    \* when closed_ first became true
    accepted, popped, eofSeen, npush, nclose, ndropped, atClose, deliveredAtClose,
    \* CommandStreambuf: current_, gptr() - eback(), the value underflow
    \* returned last, and (observers) the get area after each successful pop
    \* and the characters the reader has taken
    current_, gpos, uret, exposed, stream,
    \* LineBufferStreambuf: buffer_, whether callback_ holds a function, and
    \* (observers) the payloads of the callback invocations, the characters
    \* written and the syncs made, in order, and the number of callback
    \* invocations the last sync made
    buffer_, hasCallback, lines, written, syncCalls,
    \* SFEngine: the lifecycle state, the position of the engine thread, the
    \* call each host thread is in, the characters the engine has still to
    \* write, std::cin's and std::cout's buffers and the ones StreamRedirector
    \* saved, and (observers) the lines the engine loop has read, whether a
    \* sendCommand began after stop had begun, whether a stop has returned,
    \* whether a start and a stop have returned without doing anything,
    \* whether a start has found the bridge Stopped, whether the run of the
    \* engine has thrown,
    \* and the numbers of sendCommand calls, answers written, spawned
    \* threads, joins and shutdowns
    state, wpc, op, wout, cinBuf, coutBuf, oldInBuf_, oldOutBuf_,
    readLines, late, stopReturned, startIgnored, stopIgnored, restartTried,
    threw, nsend, nanswer, nspawn, njoin, nshutdown

qvars == <<queue_, closed_, mutex_, cv_, pc, arg, out, ret>>
hvars == <<accepted, popped, eofSeen, npush, nclose, ndropped, atClose,
           deliveredAtClose>>
ivars == <<current_, gpos, uret, exposed, stream>>
ovars == <<buffer_, hasCallback, lines, written, syncCalls>>
vars == <<queue_, closed_, mutex_, cv_, pc, arg, out, ret,
          accepted, popped, eofSeen, npush, nclose, ndropped, atClose,
          deliveredAtClose, current_, gpos, uret, exposed, stream,
          buffer_, hasCallback, lines, written, syncCalls,
          state, wpc, op, wout, cinBuf, coutBuf, oldInBuf_, oldOutBuf_,
          readLines, late, stopReturned, startIgnored, stopIgnored,
          restartTried, threw, nsend, nanswer, nspawn, njoin, nshutdown>>
bvars == <<state, wpc, op, wout, cinBuf, coutBuf, oldInBuf_, oldOutBuf_,
           readLines, late, stopReturned, startIgnored, stopIgnored,
           restartTried, threw, nsend, nanswer, nspawn, njoin, nshutdown>>
\* what the queue on its own, the input adapter and the output adapter
\* leave alone
nonq == <<ivars, ovars, bvars>>
nonin == <<ovars, bvars>>
nonout == <<qvars, hvars, ivars, bvars>>

IsPrefix(s, t) == Len(s) <= Len(t) /\ SubSeq(t, 1, Len(s)) = s

(***************************************************************************)
(* ThreadSafeQueue: std::mutex, std::condition_variable                    *)
(***************************************************************************)
\* std::lock_guard / std::unique_lock constructor: blocks until the mutex is free
Lock(t) == mutex_ = NoThread /\ mutex_' = t

\* end of the guarded scope
Unlock(t) == mutex_ = t /\ mutex_' = NoThread

\* cv_.notify_one(): wakes one of the waiting threads, if there is any
NotifyOne == IF cv_ = {} THEN cv_' = cv_ ELSE \E w \in cv_ : cv_' = cv_ \ {w}

\* a notification that wakes one of the waiting threads only
NotifyAllWakesOne == IF cv_ = {} THEN cv_' = cv_ ELSE \E w \in cv_ : cv_' = cv_ \ {w}

\* cv_.notify_all(): wakes every waiting thread
NotifyAll == cv_' = {}

\* the wait predicate of pop
WaitPred == closed_ \/ queue_ # <<>>

\* a push that adds at the head instead of the tail
PushFront(q, v) == <<v>> \o q

\* queue_.push_back(std::move(value))
PushBack(q, v) == Append(q, v)

(***************************************************************************)
(* push(T value)                                                           *)
(***************************************************************************)
\* a thread enters push: it takes the lock
PushLock(t, v) ==
    /\ pc[t] = "idle"
    /\ Lock(t)
    /\ pc' = [pc EXCEPT ![t] = "push_cs"]
    /\ arg' = [arg EXCEPT ![t] = v]
    /\ UNCHANGED <<queue_, closed_, cv_, out, ret>>

\* a push that does not look at closed_
PushBodyNoClosedCheck(t) ==
    /\ pc[t] = "push_cs"
    /\ Unlock(t)
    /\ queue_' = PushBack(queue_, arg[t])
    /\ pc' = [pc EXCEPT ![t] = "push_notify"]
    /\ arg' = [arg EXCEPT ![t] = NoValue]
    /\ UNCHANGED <<closed_, cv_, out, ret>>

\* the guarded block of push: return when closed, else append
PushBody(t) ==
    /\ pc[t] = "push_cs"
    /\ Unlock(t)
    /\ IF closed_
       THEN /\ pc' = [pc EXCEPT ![t] = "idle"]
            /\ UNCHANGED queue_
       ELSE /\ queue_' = PushBack(queue_, arg[t])
            /\ pc' = [pc EXCEPT ![t] = "push_notify"]
    /\ arg' = [arg EXCEPT ![t] = NoValue]
    /\ UNCHANGED <<closed_, cv_, out, ret>>

\* a push that returns without notifying
PushNotifySkipped(t) ==
    /\ pc[t] = "push_notify"
    /\ pc' = [pc EXCEPT ![t] = "idle"]
    /\ UNCHANGED <<queue_, closed_, mutex_, cv_, arg, out, ret>>

\* cv_.notify_one() after the lock was released
PushNotify(t) ==
    /\ pc[t] = "push_notify"
    /\ NotifyOne
    /\ pc' = [pc EXCEPT ![t] = "idle"]
    /\ UNCHANGED <<queue_, closed_, mutex_, arg, out, ret>>

(***************************************************************************)
(* pop(T& out)                                                             *)
(***************************************************************************)
\* a thread enters pop: it takes the lock
PopLock(t) ==
    /\ pc[t] = "idle"
    /\ Lock(t)
    /\ pc' = [pc EXCEPT ![t] = "pop_cs"]
    /\ UNCHANGED <<queue_, closed_, cv_, arg, out, ret>>

\* a pop that reports end-of-input as soon as the queue is closed, without
\* draining it
PopBodyClosedFirst(t) ==
    /\ pc[t] = "pop_cs"
    /\ Unlock(t)
    /\ IF ~WaitPred
       THEN /\ cv_' = cv_ \cup {t}
            /\ pc' = [pc EXCEPT ![t] = "pop_wait"]
            /\ UNCHANGED <<queue_, out, ret>>
       ELSE /\ IF closed_
               THEN /\ ret' = [ret EXCEPT ![t] = FALSE]
                    /\ UNCHANGED <<queue_, out>>
               ELSE /\ out' = [out EXCEPT ![t] = Head(queue_)]
                    /\ queue_' = Tail(queue_)
                    /\ ret' = [ret EXCEPT ![t] = TRUE]
            /\ pc' = [pc EXCEPT ![t] = "pop_ret"]
            /\ UNCHANGED cv_
    /\ UNCHANGED <<closed_, arg>>

\* a pop that hands out the newest item instead of the oldest
PopBodyFromBack(t) ==
    /\ pc[t] = "pop_cs"
    /\ Unlock(t)
    /\ IF ~WaitPred
       THEN /\ cv_' = cv_ \cup {t}
            /\ pc' = [pc EXCEPT ![t] = "pop_wait"]
            /\ UNCHANGED <<queue_, out, ret>>
       ELSE /\ IF queue_ = <<>>
               THEN /\ ret' = [ret EXCEPT ![t] = FALSE]
                    /\ UNCHANGED <<queue_, out>>
               ELSE /\ out' = [out EXCEPT ![t] = queue_[Len(queue_)]]
                    /\ queue_' = SubSeq(queue_, 1, Len(queue_) - 1)
                    /\ ret' = [ret EXCEPT ![t] = TRUE]
            /\ pc' = [pc EXCEPT ![t] = "pop_ret"]
            /\ UNCHANGED cv_
    /\ UNCHANGED <<closed_, arg>>

\* a pop that keeps the lock while it waits for the predicate
PopBodyWaitHoldingLock(t) ==
    /\ pc[t] = "pop_cs"
    /\ mutex_ = t
    /\ IF ~WaitPred
       THEN /\ cv_' = cv_ \cup {t}
            /\ pc' = [pc EXCEPT ![t] = "pop_wait"]
            /\ UNCHANGED <<mutex_, queue_, out, ret>>
       ELSE /\ mutex_' = NoThread
            /\ IF queue_ = <<>>
               THEN /\ ret' = [ret EXCEPT ![t] = FALSE]
                    /\ UNCHANGED <<queue_, out>>
               ELSE /\ out' = [out EXCEPT ![t] = Head(queue_)]
                    /\ queue_' = Tail(queue_)
                    /\ ret' = [ret EXCEPT ![t] = TRUE]
            /\ pc' = [pc EXCEPT ![t] = "pop_ret"]
            /\ UNCHANGED cv_
    /\ UNCHANGED <<closed_, arg>>

\* cv_.wait(lock, pred) with the lock held: when the predicate is false the
\* thread releases the lock and waits; when it is true the rest of pop runs
\* under the same lock
PopBody(t) ==
    /\ pc[t] = "pop_cs"
    /\ Unlock(t)
    /\ IF ~WaitPred
       THEN /\ cv_' = cv_ \cup {t}
            /\ pc' = [pc EXCEPT ![t] = "pop_wait"]
            /\ UNCHANGED <<queue_, out, ret>>
       ELSE /\ IF queue_ = <<>>
               THEN /\ ret' = [ret EXCEPT ![t] = FALSE]
                    /\ UNCHANGED <<queue_, out>>
               ELSE /\ out' = [out EXCEPT ![t] = Head(queue_)]
                    /\ queue_' = Tail(queue_)
                    /\ ret' = [ret EXCEPT ![t] = TRUE]
            /\ pc' = [pc EXCEPT ![t] = "pop_ret"]
            /\ UNCHANGED cv_
    /\ UNCHANGED <<closed_, arg>>

\* a waiting thread that was notified takes the lock again and rechecks
PopWake(t) ==
    /\ pc[t] = "pop_wait"
    /\ t \notin cv_
    /\ Lock(t)
    /\ pc' = [pc EXCEPT ![t] = "pop_cs"]
    /\ UNCHANGED <<queue_, closed_, cv_, arg, out, ret>>

\* a condition variable may wake a waiter without any notify
PopSpurious(t) ==
    /\ pc[t] = "pop_wait"
    /\ t \in cv_
    /\ cv_' = cv_ \ {t}
    /\ UNCHANGED <<queue_, closed_, mutex_, pc, arg, out, ret>>

(***************************************************************************)
(* close()                                                                 *)
(***************************************************************************)
CloseLock(t) ==
    /\ pc[t] = "idle"
    /\ Lock(t)
    /\ pc' = [pc EXCEPT ![t] = "close_cs"]
    /\ UNCHANGED <<queue_, closed_, cv_, arg, out, ret>>

\* a close that flips the flag
CloseBodyToggle(t) ==
    /\ pc[t] = "close_cs"
    /\ Unlock(t)
    /\ closed_' = ~closed_
    /\ pc' = [pc EXCEPT ![t] = "close_notify"]
    /\ UNCHANGED <<queue_, cv_, arg, out, ret>>

CloseBody(t) ==
    /\ pc[t] = "close_cs"
    /\ Unlock(t)
    /\ closed_' = TRUE
    /\ pc' = [pc EXCEPT ![t] = "close_notify"]
    /\ UNCHANGED <<queue_, cv_, arg, out, ret>>

CloseNotify(t) ==
    /\ pc[t] = "close_notify"
    /\ NotifyAll
    /\ pc' = [pc EXCEPT ![t] = "idle"]
    /\ UNCHANGED <<queue_, closed_, mutex_, arg, out, ret>>

(***************************************************************************)
(* closed() const                                                          *)
(***************************************************************************)
ClosedLock(t) ==
    /\ pc[t] = "idle"
    /\ Lock(t)
    /\ pc' = [pc EXCEPT ![t] = "closed_cs"]
    /\ UNCHANGED <<queue_, closed_, cv_, arg, out, ret>>

\* return closed_
ClosedBody(t) ==
    /\ pc[t] = "closed_cs"
    /\ Unlock(t)
    /\ ret' = [ret EXCEPT ![t] = closed_]
    /\ pc' = [pc EXCEPT ![t] = "idle"]
    /\ UNCHANGED <<queue_, closed_, cv_, arg, out>>

(***************************************************************************)
(* Observers of the queue.                                                 *)
(***************************************************************************)
\* the values pop has handed out so far: those the consumers recorded and
\* the one a pop has just returned
Delivered ==
    popped \o (IF pc[Consumer] = "pop_ret" /\ ret[Consumer]
               THEN <<out[Consumer]>> ELSE <<>>)

\* the value of the push that holds the lock on an open queue
Pending ==
    IF mutex_ \in Producers /\ pc[mutex_] = "push_cs" /\ ~closed_
    THEN <<arg[mutex_]>> ELSE <<>>

\* a pop has returned false
EofReturned == eofSeen \/ (pc[Consumer] = "pop_ret" /\ ~ret[Consumer])

\* a push takes the lock: it is accepted exactly when the queue is open,
\* which cannot change while it holds the lock
ObservePushLock(v) ==
    /\ accepted' = (IF closed_ THEN accepted ELSE Append(accepted, v))
    /\ npush' = npush + 1
    /\ UNCHANGED <<popped, eofSeen, nclose, ndropped, atClose, deliveredAtClose>>

ObservePushBody ==
    /\ ndropped' = (IF closed_ THEN ndropped + 1 ELSE ndropped)
    /\ UNCHANGED <<accepted, popped, eofSeen, npush, nclose, atClose,
                   deliveredAtClose>>

ObserveCloseBody ==
    /\ atClose' = (IF closed_ THEN atClose ELSE queue_)
    /\ deliveredAtClose' = (IF closed_ THEN deliveredAtClose ELSE Delivered)
    /\ UNCHANGED <<accepted, popped, eofSeen, npush, nclose, ndropped>>

(***************************************************************************)
(* The queue on its own: producers push, a closer closes, one consumer     *)
(* pops.                                                                   *)
(***************************************************************************)
QInit ==
    /\ queue_ = <<>>
    /\ closed_ = FALSE
    /\ mutex_ = NoThread
    /\ cv_ = {}
    /\ pc = [t \in Threads |-> "idle"]
    /\ arg = [t \in Threads |-> NoValue]
    /\ out = [t \in Threads |-> NoValue]
    /\ ret = [t \in Threads |-> FALSE]

HInit ==
    /\ accepted = <<>>
    /\ popped = <<>>
    /\ eofSeen = FALSE
    /\ npush = 0
    /\ nclose = 0
    /\ ndropped = 0
    /\ atClose = <<>>
    /\ deliveredAtClose = <<>>

IInit ==
    /\ current_ = <<>>
    /\ gpos = 0
    /\ uret = NoChar
    /\ exposed = <<>>
    /\ stream = <<>>

OInit ==
    /\ buffer_ = <<>>
    /\ hasCallback = TRUE
    /\ lines = <<>>
    /\ written = <<>>
    /\ syncCalls = 0

BInit ==
    /\ state = "Idle"
    /\ wpc = "unborn"
    /\ op = [t \in Threads |-> "none"]
    /\ wout = <<>>
    /\ cinBuf = "stdin"
    /\ coutBuf = "stdout"
    /\ oldInBuf_ = "null"
    /\ oldOutBuf_ = "null"
    /\ readLines = <<>>
    /\ late = [t \in Threads |-> FALSE]
    /\ stopReturned = FALSE
    /\ startIgnored = FALSE
    /\ stopIgnored = FALSE
    /\ restartTried = FALSE
    /\ threw = FALSE
    /\ nsend = 0
    /\ nanswer = 0
    /\ nspawn = 0
    /\ njoin = 0
    /\ nshutdown = 0

Init == QInit /\ HInit /\ IInit /\ OInit /\ BInit

ProducerPush(t) ==
    /\ npush < MaxPush
    /\ \E v \in Items : PushLock(t, v) /\ ObservePushLock(v)
    /\ UNCHANGED nonq

ProducerBody(t) == PushBody(t) /\ ObservePushBody /\ UNCHANGED nonq

ProducerNotify(t) == PushNotify(t) /\ UNCHANGED hvars /\ UNCHANGED nonq

CloserClose(t) ==
    /\ nclose < MaxClose
    /\ CloseLock(t)
    /\ nclose' = nclose + 1
    /\ UNCHANGED <<accepted, popped, eofSeen, npush, ndropped, atClose,
                   deliveredAtClose>>
    /\ UNCHANGED nonq

CloserBody(t) == CloseBody(t) /\ ObserveCloseBody /\ UNCHANGED nonq

CloserNotify(t) == CloseNotify(t) /\ UNCHANGED hvars /\ UNCHANGED nonq

CloserQuery(t) == ClosedLock(t) /\ UNCHANGED hvars /\ UNCHANGED nonq

CloserQueryBody(t) == ClosedBody(t) /\ UNCHANGED hvars /\ UNCHANGED nonq

ConsumerPop(t) == PopLock(t) /\ UNCHANGED hvars /\ UNCHANGED nonq

ConsumerBody(t) == PopBody(t) /\ UNCHANGED hvars /\ UNCHANGED nonq

ConsumerWake(t) == PopWake(t) /\ UNCHANGED hvars /\ UNCHANGED nonq

ConsumerSpurious(t) == PopSpurious(t) /\ UNCHANGED hvars /\ UNCHANGED nonq

\* pop has returned to the consumer: it records the result
ConsumerTake(t) ==
    /\ pc[t] = "pop_ret"
    /\ pc' = [pc EXCEPT ![t] = "idle"]
    /\ IF ret[t]
       THEN popped' = Append(popped, out[t]) /\ UNCHANGED eofSeen
       ELSE eofSeen' = TRUE /\ UNCHANGED popped
    /\ UNCHANGED <<queue_, closed_, mutex_, cv_, arg, out, ret>>
    /\ UNCHANGED <<accepted, npush, nclose, ndropped, atClose, deliveredAtClose>>
    /\ UNCHANGED nonq

Next ==
    \/ \E t \in Producers : ProducerPush(t)
    \/ \E t \in Producers : ProducerBody(t)
    \/ \E t \in Producers : ProducerNotify(t)
    \/ \E t \in Closers : CloserClose(t)
    \/ \E t \in Closers : CloserBody(t)
    \/ \E t \in Closers : CloserNotify(t)
    \/ \E t \in Closers : CloserQuery(t)
    \/ \E t \in Closers : CloserQueryBody(t)
    \/ \E t \in Consumers : ConsumerPop(t)
    \/ \E t \in Consumers : ConsumerBody(t)
    \/ \E t \in Consumers : ConsumerWake(t)
    \/ \E t \in Consumers : ConsumerSpurious(t)
    \/ \E t \in Consumers : ConsumerTake(t)

Spec == Init /\ [][Next]_vars

(***************************************************************************)
(* Claims about the queue.                                                 *)
(***************************************************************************)
\* C1: FIFO. The values pop has handed out, followed by the values still
\* queued and the value of the push now holding the lock, are exactly the
\* values of the accepted pushes in the order they took the lock: nothing is
\* lost, duplicated or reordered.
C1_Fifo == Delivered \o queue_ \o Pending = accepted

\* C1 witness: the consumer has received two different values pushed by
\* the producers.
C1_Witness == Len(popped) >= 2 /\ popped[1] # popped[2]

\* C2: a pop returns false only when the queue is closed and empty, and by
\* then the items queued at close have all been returned, oldest first,
\* right after the ones handed out before close.
C2_CloseDrains ==
    EofReturned =>
        /\ closed_
        /\ queue_ = <<>>
        /\ popped = deliveredAtClose \o atClose

\* C2 witness: two items were queued when close ran, and a pop has since
\* returned false.
C2_Witness == eofSeen /\ Len(atClose) >= 2

\* C3: a push that runs on a closed queue leaves the items and the closed
\* flag as they are and returns normally, the set of accepted values does
\* not grow, and a pop that runs on a closed empty queue returns false
\* without waiting.
C3_PushAfterCloseInert ==
    [][/\ \A t \in Producers :
            (pc[t] = "push_cs" /\ closed_ /\ pc'[t] # "push_cs") =>
                /\ queue_' = queue_
                /\ closed_' = closed_
                /\ pc'[t] = "idle"
                /\ Delivered' \o queue_' = Delivered \o queue_
       /\ \A t \in Consumers :
            (pc[t] = "pop_cs" /\ closed_ /\ queue_ = <<>> /\ pc'[t] # "pop_cs") =>
                (pc'[t] = "pop_ret" /\ ~ret'[t])]_vars

\* C3 witness: the queue was empty when it was closed, a later push was
\* dropped and a pop has returned false.
C3_Witness == closed_ /\ atClose = <<>> /\ ndropped > 0 /\ eofSeen /\ popped = <<>>

(***************************************************************************)
(* CommandStreambuf: the input adapter.                                    *)
(***************************************************************************)
\* a normalisation that also terminates the empty command
NormaliseAlways(s) == IF s = <<>> \/ s[Len(s)] # NL THEN Append(s, NL) ELSE s

\* if (!current_.empty() && current_.back() != '\n') current_.push_back('\n')
Normalise(s) == IF s # <<>> /\ s[Len(s)] # NL THEN Append(s, NL) ELSE s

\* the get area [eback(), egptr()) set by setg(data, data, data + size)
GetArea == current_

\* gptr() < egptr()
Available == gpos < Len(GetArea)

\* *gptr() for gptr() <= egptr(): a character of the get area, or the
\* terminator std::string keeps after its last character
CharAtGptr(s, i) == IF i < Len(s) THEN s[i + 1] ELSE NUL

\* underflow with unread characters in the get area: return *gptr()
UnderflowAvail(t) ==
    /\ pc[t] = "idle"
    /\ Available
    /\ uret' = CharAtGptr(GetArea, gpos)
    /\ UNCHANGED <<current_, gpos, exposed, stream>>
    /\ UNCHANGED <<qvars, hvars>>

\* underflow with the get area used up: queue_.pop(current_)
UnderflowPop(t) ==
    /\ pc[t] = "idle"
    /\ ~Available
    /\ PopLock(t)
    /\ UNCHANGED <<ivars, hvars>>

UnderflowPopBody(t) == PopBody(t) /\ UNCHANGED <<ivars, hvars>>

UnderflowPopWake(t) == PopWake(t) /\ UNCHANGED <<ivars, hvars>>

UnderflowPopSpurious(t) == PopSpurious(t) /\ UNCHANGED <<ivars, hvars>>

\* pop has returned into underflow: eof, or normalise, setg and *gptr()
UnderflowDone(t) ==
    /\ pc[t] = "pop_ret"
    /\ pc' = [pc EXCEPT ![t] = "idle"]
    /\ IF ~ret[t]
       THEN /\ uret' = EOFch
            /\ eofSeen' = TRUE
            /\ UNCHANGED <<current_, gpos, exposed, popped>>
       ELSE /\ current_' = Normalise(out[t])
            /\ gpos' = 0
            /\ uret' = CharAtGptr(current_', 0)
            /\ exposed' = Append(exposed, current_')
            /\ popped' = Append(popped, out[t])
            /\ UNCHANGED eofSeen
    /\ UNCHANGED stream
    /\ UNCHANGED <<queue_, closed_, mutex_, cv_, arg, out, ret>>
    /\ UNCHANGED <<accepted, npush, nclose, ndropped, atClose, deliveredAtClose>>

(***************************************************************************)
(* The reader of the input adapter: std::basic_streambuf's sgetc, sbumpc   *)
(* and uflow as the stream above it calls them.                            *)
(***************************************************************************)
\* sbumpc / sgetn with a read position: take k characters of the get area
ReaderBump(t, k) ==
    /\ pc[t] = "idle"
    /\ Available
    /\ k \in 1 .. (Len(GetArea) - gpos)
    /\ gpos' = gpos + k
    /\ stream' = stream \o SubSeq(GetArea, gpos + 1, gpos + k)
    /\ uret' = NoChar
    /\ UNCHANGED <<current_, exposed>>
    /\ UNCHANGED <<qvars, hvars>>

\* uflow after underflow returned a character with an empty get area:
\* it returns *gptr() and advances gptr() past egptr()
ReaderBumpPastEnd(t) ==
    /\ pc[t] = "idle"
    /\ gpos = Len(GetArea)
    /\ uret = NUL
    /\ gpos' = gpos + 1
    /\ stream' = Append(stream, NUL)
    /\ uret' = NoChar
    /\ UNCHANGED <<current_, exposed>>
    /\ UNCHANGED <<qvars, hvars>>

\* a reader that tests gptr() == egptr() (libc++) finds gptr() past egptr()
\* and reads the memory behind the string: any character
ReaderOverread(t, c) ==
    /\ pc[t] = "idle"
    /\ gpos > Len(GetArea)
    /\ gpos <= Len(GetArea) + MaxOverread
    /\ gpos' = gpos + 1
    /\ stream' = Append(stream, c)
    /\ uret' = NoChar
    /\ UNCHANGED <<current_, exposed>>
    /\ UNCHANGED <<qvars, hvars>>

(***************************************************************************)
(* The input adapter on a queue that another thread fills and closes.      *)
(***************************************************************************)
\* one thread feeds the adapter's queue and closes it
InProducers == {"p1"}

InProducerPush(t) ==
    /\ npush < MaxCmd
    /\ \E v \in Strings : PushLock(t, v) /\ ObservePushLock(v)
    /\ UNCHANGED nonq

InProducerBody(t) == PushBody(t) /\ ObservePushBody /\ UNCHANGED nonq

InProducerNotify(t) == PushNotify(t) /\ UNCHANGED hvars /\ UNCHANGED nonq

InCloserClose(t) ==
    /\ nclose < 1
    /\ CloseLock(t)
    /\ nclose' = nclose + 1
    /\ UNCHANGED <<accepted, popped, eofSeen, npush, ndropped, atClose,
                   deliveredAtClose>>
    /\ UNCHANGED nonq

InCloserBody(t) == CloseBody(t) /\ ObserveCloseBody /\ UNCHANGED nonq

InCloserNotify(t) == CloseNotify(t) /\ UNCHANGED hvars /\ UNCHANGED nonq

NextIn ==
    \/ \E t \in InProducers : InProducerPush(t)
    \/ \E t \in InProducers : InProducerBody(t)
    \/ \E t \in InProducers : InProducerNotify(t)
    \/ \E t \in InProducers : InCloserClose(t)
    \/ \E t \in InProducers : InCloserBody(t)
    \/ \E t \in InProducers : InCloserNotify(t)
    \/ \E t \in Workers : UnderflowAvail(t) /\ UNCHANGED nonin
    \/ \E t \in Workers : UnderflowPop(t) /\ UNCHANGED nonin
    \/ \E t \in Workers : UnderflowPopBody(t) /\ UNCHANGED nonin
    \/ \E t \in Workers : UnderflowPopWake(t) /\ UNCHANGED nonin
    \/ \E t \in Workers : UnderflowPopSpurious(t) /\ UNCHANGED nonin
    \/ \E t \in Workers : UnderflowDone(t) /\ UNCHANGED nonin
    \/ \E t \in Workers : \E k \in 1 .. (MaxLen + 1) :
            ReaderBump(t, k) /\ UNCHANGED nonin
    \/ \E t \in Workers : ReaderBumpPastEnd(t) /\ UNCHANGED nonin
    \/ \E t \in Workers : \E c \in InChars \cup {NUL} :
            ReaderOverread(t, c) /\ UNCHANGED nonin

SpecIn == Init /\ [][NextIn]_vars

(***************************************************************************)
(* Claims about the input adapter.                                         *)
(***************************************************************************)
\* s ends with exactly one line terminator
OneTrailingNL(s) ==
    /\ Len(s) >= 1
    /\ s[Len(s)] = NL
    /\ Len(s) >= 2 => s[Len(s) - 1] # NL

\* C4: for every command popped by the input adapter, the characters of the
\* get area it exposes end with exactly one line terminator.
C4_ExactlyOneTerminator ==
    \A i \in 1 .. Len(exposed) : OneTrailingNL(exposed[i])

\* the characters of a sequence of strings, one string after the other
RECURSIVE Concat(_)
Concat(ss) == IF ss = <<>> THEN <<>> ELSE Head(ss) \o Concat(Tail(ss))

\* the get areas exposed before the current one
Earlier(ss) == IF ss = <<>> THEN <<>> ELSE SubSeq(ss, 1, Len(ss) - 1)

\* end-of-input is reported only on a closed queue whose accepted commands
\* have all been popped and read to their ends
C15_EofOnlyAfterAll ==
    eofSeen =>
        /\ closed_
        /\ queue_ = <<>>
        /\ popped = accepted
        /\ stream = Concat(exposed)

\* the get area is the normalised command popped last
C15_GetAreaIsCurrent ==
    /\ Len(exposed) = Len(popped)
    /\ \A i \in 1 .. Len(exposed) : exposed[i] = Normalise(popped[i])
    /\ exposed # <<>> => GetArea = exposed[Len(exposed)]
    /\ exposed = <<>> => GetArea = <<>>

\* the characters read are the earlier commands whole and the current one
\* up to the read position
C15_StreamIsPrefix ==
    /\ gpos <= Len(GetArea)
    /\ stream = Concat(Earlier(exposed)) \o SubSeq(GetArea, 1, gpos)

\* C15: the input adapter reports end-of-input only when the queue is
\* closed and every accepted command has been read to its end; until then
\* the characters read are the normalised commands in pop order, one after
\* the other, the get area is the current command only, and the read
\* position stays inside it.
C15_StreamIsCommands ==
    /\ C15_EofOnlyAfterAll
    /\ C15_GetAreaIsCurrent
    /\ C15_StreamIsPrefix

(***************************************************************************)
(* LineBufferStreambuf: the output adapter.                                *)
(***************************************************************************)
\* the characters the engine writes
OutChars == {"a", "b", CR, NL}
\* the mark `written` keeps for a sync
SYNC == "SYNC"

\* a flush_line that also reports empty lines
FlushCallsEvenEmpty(cb, buf) == IF ~cb THEN <<>> ELSE <<buf>>

\* flush_line: the callback invocations it makes
FlushCalls(cb, buf) == IF ~cb \/ buf = <<>> THEN <<>> ELSE <<buf>>

\* a flush_line that clears the buffer even without a callback
FlushBufferAlways(cb, buf) == <<>>

\* a flush_line that does not clear the buffer
FlushBufferKeep(cb, buf) == buf

\* flush_line: the buffer it leaves
FlushBuffer(cb, buf) == IF ~cb \/ buf = <<>> THEN buf ELSE <<>>

\* overflow(int_type ch)
overflow(ch) ==
    /\ IF ch = EOFch
       THEN UNCHANGED <<buffer_, lines, written>>
       ELSE /\ written' = Append(written, ch)
            /\ IF ch = CR
               THEN UNCHANGED <<buffer_, lines>>
               ELSE IF ch = NL
                    THEN /\ lines' = lines \o FlushCalls(hasCallback, buffer_)
                         /\ buffer_' = FlushBuffer(hasCallback, buffer_)
                    ELSE /\ buffer_' = Append(buffer_, ch)
                         /\ UNCHANGED lines
    /\ UNCHANGED <<hasCallback, syncCalls>>

\* a sync that returns 0 without flushing the pending line
syncNoFlush ==
    /\ written' = Append(written, SYNC)
    /\ syncCalls' = 0
    /\ UNCHANGED <<buffer_, lines, hasCallback>>

\* sync()
sync ==
    /\ lines' = lines \o FlushCalls(hasCallback, buffer_)
    /\ buffer_' = FlushBuffer(hasCallback, buffer_)
    /\ written' = Append(written, SYNC)
    /\ syncCalls' = Len(FlushCalls(hasCallback, buffer_))
    /\ UNCHANGED hasCallback

\* the adapter is constructed with a callback or with an empty std::function
InitOut ==
    /\ QInit /\ HInit /\ IInit /\ BInit
    /\ buffer_ = <<>>
    /\ hasCallback \in BOOLEAN
    /\ lines = <<>>
    /\ written = <<>>
    /\ syncCalls = 0

\* the stream above the adapter writes a character
OutWrite(ch) ==
    /\ Len(written) < MaxWrite
    /\ overflow(ch)
    /\ UNCHANGED nonout

\* the stream above the adapter is flushed
OutFlush ==
    /\ Len(written) < MaxWrite
    /\ sync
    /\ UNCHANGED nonout

NextOut ==
    \/ \E ch \in OutChars \cup {EOFch} : OutWrite(ch)
    \/ OutFlush

SpecOut == InitOut /\ [][NextOut]_vars

(***************************************************************************)
(* Claims about the output adapter.                                        *)
(***************************************************************************)
\* w without its carriage returns
StripCR(w) == SelectSeq(w, LAMBDA c : c # CR)

\* the positions of w that end a line: a line terminator or a sync
Ends(w, marks) == {i \in 1 .. Len(w) : w[i] \in marks}

\* the characters of w between the end before position i and position i
Segment(w, marks, i) ==
    LET before == {j \in Ends(w, marks) : j < i}
        from == IF before = {} THEN 1
                ELSE (CHOOSE j \in before : \A k \in before : k <= j) + 1
    IN  SubSeq(w, from, i - 1)

RECURSIVE SegmentsFrom(_, _, _)
\* the non-empty segments of w that end at a position >= i, in order
SegmentsFrom(w, marks, i) ==
    IF i > Len(w) THEN <<>>
    ELSE IF w[i] \in marks /\ Segment(w, marks, i) # <<>>
         THEN <<Segment(w, marks, i)>> \o SegmentsFrom(w, marks, i + 1)
         ELSE SegmentsFrom(w, marks, i + 1)

\* the non-empty terminated segments of w with the carriage returns deleted
Segments(w, marks) == SegmentsFrom(StripCR(w), marks, 1)

\* what follows the last end in w, without carriage returns
Remainder(w, marks) == Segment(Append(StripCR(w), NL), marks \cup {NL}, Len(StripCR(w)) + 1)

\* the characters written before the final sync of w, back to the previous
\* line terminator or sync
RunBeforeSync(w) == Segment(w, {NL, SYNC}, Len(w))

EndsWithSync(w) == w # <<>> /\ w[Len(w)] = SYNC

NoSync(w) == \A i \in 1 .. Len(w) : w[i] # SYNC

\* C5: with a callback and no sync, the callback payloads are exactly the
\* non-empty segments, each ended by a line terminator, of the characters
\* written with every carriage return deleted, in order; what follows the
\* last terminator is pending in buffer_; no payload is empty or holds a
\* carriage return or a line terminator.
C5_LineSplitting ==
    (hasCallback /\ NoSync(written)) =>
        /\ lines = Segments(written, {NL})
        /\ buffer_ = Remainder(written, {NL})
        /\ \A i \in 1 .. Len(lines) :
              /\ lines[i] # <<>>
              /\ \A k \in 1 .. Len(lines[i]) : lines[i][k] \notin {CR, NL}

\* C5 witness: "a\r\nb\n" was written and gave the two payloads "a", "b".
C5_Witness ==
    /\ hasCallback
    /\ written = <<"a", CR, NL, "b", NL>>
    /\ lines = <<(<<"a">>), (<<"b">>)>>

\* C6 as claimed: a sync after a non-empty run of characters without a line
\* terminator invokes the callback exactly once, with that run less its
\* carriage returns, and empties the buffer; a sync after an empty run
\* invokes nothing.
C6_SyncDeliversAnyRun ==
    (hasCallback /\ EndsWithSync(written)) =>
        IF RunBeforeSync(written) # <<>>
        THEN /\ syncCalls = 1
             /\ lines # <<>>
             /\ lines[Len(lines)] = StripCR(RunBeforeSync(written))
             /\ buffer_ = <<>>
        ELSE syncCalls = 0 /\ buffer_ = <<>>

\* C6 amended: a sync after a run of characters without a line terminator
\* that holds at least one character other than a carriage return invokes
\* the callback exactly once, with that run less its carriage returns, and
\* empties the buffer; a sync after a run of carriage returns only, or
\* after an empty run (an immediately repeated sync), invokes nothing.
C6_SyncDeliversPartialLine ==
    (hasCallback /\ EndsWithSync(written)) =>
        IF StripCR(RunBeforeSync(written)) # <<>>
        THEN /\ syncCalls = 1
             /\ lines # <<>>
             /\ lines[Len(lines)] = StripCR(RunBeforeSync(written))
             /\ buffer_ = <<>>
        ELSE syncCalls = 0 /\ buffer_ = <<>>

\* C6 witness: a partial line was written, a sync delivered it and a second
\* sync delivered nothing.
C6_Witness ==
    /\ hasCallback
    /\ written = <<"a", "b", SYNC, SYNC>>
    /\ lines = <<(<<"a", "b">>)>>
    /\ syncCalls = 0

\* the characters of w that overflow appends to the buffer
Kept(w) == SelectSeq(w, LAMBDA c : c \notin {CR, NL, SYNC})

\* C20: an adapter constructed with an empty callback invokes nothing and
\* never clears its buffer: after any writes and syncs the buffer holds
\* every character written other than carriage returns and line
\* terminators, in order, across line boundaries.
C20_NullCallbackKeepsAll ==
    ~hasCallback =>
        /\ lines = <<>>
        /\ buffer_ = Kept(written)

\* C20 witness: "a\nb" and a sync were written to an adapter without a
\* callback, and the buffer holds "ab"
C20_Witness ==
    /\ ~hasCallback
    /\ written = <<"a", NL, "b", SYNC>>
    /\ buffer_ = <<"a", "b">>
    /\ lines = <<>>

(***************************************************************************)
(* RunStockfishUCI on the engine thread: StreamRedirector, the banner, the *)
(* UCI loop reading std::cin and writing std::cout, and the teardown.      *)
(***************************************************************************)
\* engine_info(), as far as line framing matters
Banner == <<"a", NL>>
\* the terminating command ("quit"), as the loop sees it and as stop
\* enqueues it
QuitLine == <<"q">>
QuitCmd == <<"q", NL>>
\* what the engine may write in answer to a command: nothing, a line, or
\* characters without a line terminator
Responses == {<<>>, <<"a", NL>>, <<"b">>}

\* the number of characters getline takes: up to and with the first line
\* terminator of the get area, or all of it
LineLen(s, i) ==
    LET nls == {k \in (i + 1) .. Len(s) : s[k] = NL}
    IN  IF nls = {} THEN Len(s) - i
        ELSE (CHOOSE k \in nls : \A m \in nls : k <= m) - i

\* StreamRedirector::StreamRedirector
W_Redirect ==
    /\ wpc = "redirect"
    /\ oldInBuf_' = cinBuf
    /\ cinBuf' = "inBuf"
    /\ oldOutBuf_' = coutBuf
    /\ coutBuf' = "outBuf"
    /\ wout' = Banner
    /\ wpc' = "banner"
    /\ UNCHANGED <<state, op, readLines, late, stopReturned, nsend, nspawn,
                   njoin, nshutdown, nanswer, startIgnored, stopIgnored,
                   restartTried, threw>>
    /\ UNCHANGED <<qvars, hvars, ivars, ovars>>

\* std::cout << ... : one character reaches the output adapter
W_Write ==
    /\ wpc \in {"banner", "write"}
    /\ wout # <<>>
    /\ overflow(Head(wout))
    /\ wout' = Tail(wout)
    /\ wpc' = (IF wpc = "write" /\ Tail(wout) = <<>> THEN "read" ELSE wpc)
    /\ UNCHANGED <<state, op, cinBuf, coutBuf, oldInBuf_, oldOutBuf_,
                   readLines, late, stopReturned, nsend, nspawn, njoin,
                   nshutdown, nanswer, startIgnored, stopIgnored,
                   restartTried, threw>>
    /\ UNCHANGED <<qvars, hvars, ivars>>

\* std::endl after the banner: flush
W_BannerFlush ==
    /\ wpc = "banner"
    /\ wout = <<>>
    /\ sync
    /\ wpc' = "read"
    /\ UNCHANGED <<state, op, wout, cinBuf, coutBuf, oldInBuf_, oldOutBuf_,
                   readLines, late, stopReturned, nsend, nspawn, njoin,
                   nshutdown, nanswer, startIgnored, stopIgnored,
                   restartTried, threw>>
    /\ UNCHANGED <<qvars, hvars, ivars>>

\* uci.loop(): getline finds the get area used up and calls underflow
W_Underflow(t) ==
    /\ wpc = "read"
    /\ UnderflowPop(t)
    /\ UNCHANGED <<ovars, bvars>>

W_PopBody(t) == UnderflowPopBody(t) /\ UNCHANGED <<ovars, bvars>>

W_PopWake(t) == UnderflowPopWake(t) /\ UNCHANGED <<ovars, bvars>>

W_PopSpurious(t) == UnderflowPopSpurious(t) /\ UNCHANGED <<ovars, bvars>>

\* underflow returns: on eof getline fails and the loop ends
W_UnderflowDone(t) ==
    /\ wpc = "read"
    /\ UnderflowDone(t)
    /\ wpc' = (IF ret[t] THEN "read" ELSE "restore")
    /\ UNCHANGED <<state, op, wout, cinBuf, coutBuf, oldInBuf_, oldOutBuf_,
                   readLines, late, stopReturned, nsend, nspawn, njoin,
                   nshutdown, nanswer, startIgnored, stopIgnored,
                   restartTried, threw>>
    /\ UNCHANGED ovars

\* getline takes the characters up to the line terminator; the loop ends on
\* the terminating command and answers any other
W_GetLine(t, r) ==
    /\ wpc = "read"
    /\ Available
    /\ ReaderBump(t, LineLen(GetArea, gpos))
    /\ r # <<>> => nanswer < MaxAnswers
    /\ LET line == Segment(stream', {NL}, Len(stream'))
       IN  IF stream'[Len(stream')] # NL
           THEN UNCHANGED <<wpc, wout, readLines>> /\ r = <<>>
           ELSE /\ readLines' = Append(readLines, line)
                /\ IF line = QuitLine
                   THEN wpc' = "restore" /\ wout' = <<>> /\ r = <<>>
                   ELSE /\ wout' = r
                        /\ wpc' = (IF r = <<>> THEN "read" ELSE "write")
    /\ nanswer' = (IF r = <<>> THEN nanswer ELSE nanswer + 1)
    /\ UNCHANGED <<state, op, cinBuf, coutBuf, oldInBuf_, oldOutBuf_, late,
                   stopReturned, nsend, nspawn, njoin, nshutdown,
                   startIgnored, stopIgnored, restartTried, threw>>
    /\ UNCHANGED ovars

\* engine initialisation or uci.loop() throws: the stack of RunStockfishUCI
\* unwinds, and what was to be written is dropped
W_Throw ==
    /\ wpc \in {"read", "write"}
    /\ pc["w"] = "idle"
    /\ ~threw
    /\ threw' = TRUE
    /\ wout' = <<>>
    /\ wpc' = "restore"
    /\ UNCHANGED <<state, op, cinBuf, coutBuf, oldInBuf_, oldOutBuf_,
                   readLines, late, stopReturned, nsend, nspawn, njoin,
                   nshutdown, nanswer, startIgnored, stopIgnored,
                   restartTried>>
    /\ UNCHANGED <<qvars, hvars, ivars, ovars>>

\* a destructor that restores std::cin only
W_RestoreInputOnly ==
    /\ wpc = "restore"
    /\ cinBuf' = oldInBuf_
    /\ wpc' = "flush"
    /\ UNCHANGED <<state, op, wout, coutBuf, oldInBuf_, oldOutBuf_,
                   readLines, late, stopReturned, nsend, nspawn, njoin,
                   nshutdown, nanswer, startIgnored, stopIgnored,
                   restartTried, threw>>
    /\ UNCHANGED <<qvars, hvars, ivars, ovars>>

\* StreamRedirector::~StreamRedirector
W_Restore ==
    /\ wpc = "restore"
    /\ cinBuf' = oldInBuf_
    /\ coutBuf' = oldOutBuf_
    /\ wpc' = "flush"
    /\ UNCHANGED <<state, op, wout, oldInBuf_, oldOutBuf_, readLines, late,
                   stopReturned, nsend, nspawn, njoin, nshutdown, nanswer,
                   startIgnored, stopIgnored, restartTried, threw>>
    /\ UNCHANGED <<qvars, hvars, ivars, ovars>>

\* teardown on the engine thread: the output stream is flushed, then the
\* thread ends
W_Flush ==
    /\ wpc = "flush"
    /\ sync
    /\ wpc' = "exited"
    /\ UNCHANGED <<state, op, wout, cinBuf, coutBuf, oldInBuf_, oldOutBuf_,
                   readLines, late, stopReturned, nsend, nspawn, njoin,
                   nshutdown, nanswer, startIgnored, stopIgnored,
                   restartTried, threw>>
    /\ UNCHANGED <<qvars, hvars, ivars>>

(***************************************************************************)
(* SFEngine: start, sendCommand and stop as the host threads call them.    *)
(***************************************************************************)
\* the threads of the host application
Hosts == {"p1", "p2"}
\* the texts the host sends
Texts == {<<"a">>, <<"b", NL>>}

\* sendCommand makes a Command of the text: it ends with a line terminator
MakeCommand(text) == NormaliseAlways(text)

\* the call a thread continues with when a queue operation returns
AfterCall(o) ==
    CASE o = "send" -> "none"
      [] o = "stop_pushing" -> "stop_close"
      [] o = "stop_closing" -> "stop_join"
      [] OTHER -> o

\* a start that spawns a thread whatever the state is
StartAlways(t) ==
    /\ pc[t] = "idle" /\ op[t] = "none"
    /\ state' = "Running"
    /\ wpc' = "redirect"
    /\ nspawn' = nspawn + 1
    /\ UNCHANGED <<op, wout, cinBuf, coutBuf, oldInBuf_, oldOutBuf_,
                   readLines, late, stopReturned, nsend, njoin, nshutdown,
                   nanswer, startIgnored, stopIgnored, restartTried, threw>>
    /\ UNCHANGED <<qvars, hvars, ivars, ovars>>

\* a start that also restarts a bridge that is Stopped
StartRestartable(t) ==
    /\ pc[t] = "idle" /\ op[t] = "none"
    /\ IF state \in {"Idle", "Stopped"}
       THEN /\ state' = "Running"
            /\ wpc' = "redirect"
            /\ nspawn' = nspawn + 1
            /\ UNCHANGED <<startIgnored, restartTried>>
       ELSE /\ startIgnored' = TRUE
            /\ UNCHANGED <<state, wpc, nspawn, restartTried>>
    /\ UNCHANGED <<op, wout, cinBuf, coutBuf, oldInBuf_, oldOutBuf_,
                   readLines, late, stopReturned, nsend, njoin, nshutdown,
                   nanswer, stopIgnored, threw>>
    /\ UNCHANGED <<qvars, hvars, ivars, ovars>>

\* start: a no-op unless Idle; else Running, and the engine thread is spawned
Start(t) ==
    /\ pc[t] = "idle" /\ op[t] = "none"
    /\ IF state = "Idle"
       THEN /\ state' = "Running"
            /\ wpc' = "redirect"
            /\ nspawn' = nspawn + 1
            /\ UNCHANGED <<startIgnored, restartTried>>
       ELSE /\ startIgnored' = TRUE
            /\ restartTried' = (restartTried \/ state = "Stopped")
            /\ UNCHANGED <<state, wpc, nspawn>>
    /\ UNCHANGED <<op, wout, cinBuf, coutBuf, oldInBuf_, oldOutBuf_,
                   readLines, late, stopReturned, nsend, njoin, nshutdown,
                   nanswer, stopIgnored, threw>>
    /\ UNCHANGED <<qvars, hvars, ivars, ovars>>

\* sendCommand: the command is pushed to the queue
SendCommand(t, text) ==
    /\ pc[t] = "idle" /\ op[t] = "none"
    /\ nsend < MaxSend
    /\ nsend' = nsend + 1
    /\ PushLock(t, MakeCommand(text))
    /\ ObservePushLock(MakeCommand(text))
    /\ op' = [op EXCEPT ![t] = "send"]
    /\ late' = [late EXCEPT ![t] = state \in {"Stopping", "Stopped"}]
    /\ UNCHANGED <<state, wpc, wout, cinBuf, coutBuf, oldInBuf_, oldOutBuf_,
                   readLines, stopReturned, nspawn, njoin, nshutdown,
                   nanswer, startIgnored, stopIgnored, restartTried, threw>>
    /\ UNCHANGED <<ivars, ovars>>

\* a stop that runs the shutdown whatever the state is
StopAlways(t) ==
    /\ pc[t] = "idle" /\ op[t] = "none"
    /\ state' = "Stopping"
    /\ op' = [op EXCEPT ![t] = "stop_push"]
    /\ nshutdown' = nshutdown + 1
    /\ UNCHANGED stopReturned
    /\ UNCHANGED <<wpc, wout, cinBuf, coutBuf, oldInBuf_, oldOutBuf_,
                   readLines, late, nsend, nspawn, njoin, nanswer,
                   startIgnored, stopIgnored, restartTried, threw>>
    /\ UNCHANGED <<qvars, hvars, ivars, ovars>>

\* stop: a no-op when Stopping or Stopped; else Stopping, and the shutdown
\* begins
Stop(t) ==
    /\ pc[t] = "idle" /\ op[t] = "none"
    /\ IF state \in {"Stopping", "Stopped"}
       THEN /\ stopReturned' = TRUE
            /\ stopIgnored' = TRUE
            /\ UNCHANGED <<state, op, nshutdown>>
       ELSE /\ state' = "Stopping"
            /\ op' = [op EXCEPT ![t] = "stop_push"]
            /\ nshutdown' = nshutdown + 1
            /\ UNCHANGED <<stopReturned, stopIgnored>>
    /\ UNCHANGED <<wpc, wout, cinBuf, coutBuf, oldInBuf_, oldOutBuf_,
                   readLines, late, nsend, nspawn, njoin, nanswer,
                   startIgnored, restartTried, threw>>
    /\ UNCHANGED <<qvars, hvars, ivars, ovars>>

\* stop enqueues the terminating command
StopPush(t) ==
    /\ pc[t] = "idle"
    /\ op[t] = "stop_push"
    /\ PushLock(t, QuitCmd)
    /\ ObservePushLock(QuitCmd)
    /\ op' = [op EXCEPT ![t] = "stop_pushing"]
    /\ UNCHANGED <<state, wpc, wout, cinBuf, coutBuf, oldInBuf_, oldOutBuf_,
                   readLines, late, stopReturned, nsend, nspawn, njoin,
                   nshutdown, nanswer, startIgnored, stopIgnored,
                   restartTried, threw>>
    /\ UNCHANGED <<ivars, ovars>>

\* stop closes the queue
StopClose(t) ==
    /\ pc[t] = "idle"
    /\ op[t] = "stop_close"
    /\ CloseLock(t)
    /\ nclose' = nclose + 1
    /\ op' = [op EXCEPT ![t] = "stop_closing"]
    /\ UNCHANGED <<accepted, popped, eofSeen, npush, ndropped, atClose,
                   deliveredAtClose>>
    /\ UNCHANGED <<state, wpc, wout, cinBuf, coutBuf, oldInBuf_, oldOutBuf_,
                   readLines, late, stopReturned, nsend, nspawn, njoin,
                   nshutdown, nanswer, startIgnored, stopIgnored,
                   restartTried, threw>>
    /\ UNCHANGED <<ivars, ovars>>

\* a join that does not wait for the engine thread
StopJoinNoWait(t) ==
    /\ pc[t] = "idle"
    /\ op[t] = "stop_join"
    /\ njoin' = njoin + 1
    /\ state' = "Stopped"
    /\ stopReturned' = TRUE
    /\ op' = [op EXCEPT ![t] = "none"]
    /\ UNCHANGED <<wpc, wout, cinBuf, coutBuf, oldInBuf_, oldOutBuf_,
                   readLines, late, nsend, nspawn, nshutdown, nanswer,
                   startIgnored, stopIgnored, restartTried, threw>>
    /\ UNCHANGED <<qvars, hvars, ivars, ovars>>

\* stop joins the engine thread: it returns when the thread has ended (at
\* once when none was spawned), and the state is Stopped
StopJoin(t) ==
    /\ pc[t] = "idle"
    /\ op[t] = "stop_join"
    /\ wpc \in {"unborn", "exited"}
    /\ njoin' = njoin + 1
    /\ state' = "Stopped"
    /\ stopReturned' = TRUE
    /\ op' = [op EXCEPT ![t] = "none"]
    /\ UNCHANGED <<wpc, wout, cinBuf, coutBuf, oldInBuf_, oldOutBuf_,
                   readLines, late, nsend, nspawn, nshutdown, nanswer,
                   startIgnored, stopIgnored, restartTried, threw>>
    /\ UNCHANGED <<qvars, hvars, ivars, ovars>>

\* the queue operation a host thread is in goes on; when it returns the
\* thread goes on with its call
HostFrame(t) ==
    /\ op' = [op EXCEPT ![t] = IF pc'[t] = "idle" THEN AfterCall(op[t])
                                ELSE op[t]]
    /\ UNCHANGED <<state, wpc, wout, cinBuf, coutBuf, oldInBuf_, oldOutBuf_,
                   readLines, late, stopReturned, nsend, nspawn, njoin,
                   nshutdown, nanswer, startIgnored, stopIgnored,
                   restartTried, threw>>
    /\ UNCHANGED <<ivars, ovars>>

HostPushBody(t) == PushBody(t) /\ ObservePushBody /\ HostFrame(t)

HostPushNotify(t) == PushNotify(t) /\ UNCHANGED hvars /\ HostFrame(t)

HostCloseBody(t) == CloseBody(t) /\ ObserveCloseBody /\ HostFrame(t)

HostCloseNotify(t) == CloseNotify(t) /\ UNCHANGED hvars /\ HostFrame(t)

NextBridge ==
    \/ \E t \in Hosts : Start(t)
    \/ \E t \in Hosts : \E text \in Texts : SendCommand(t, text)
    \/ \E t \in Hosts : Stop(t)
    \/ \E t \in Hosts : StopPush(t)
    \/ \E t \in Hosts : StopClose(t)
    \/ \E t \in Hosts : StopJoin(t)
    \/ \E t \in Hosts : HostPushBody(t)
    \/ \E t \in Hosts : HostPushNotify(t)
    \/ \E t \in Hosts : HostCloseBody(t)
    \/ \E t \in Hosts : HostCloseNotify(t)
    \/ W_Redirect
    \/ W_Write
    \/ W_BannerFlush
    \/ \E t \in Workers : W_Underflow(t)
    \/ \E t \in Workers : W_PopBody(t)
    \/ \E t \in Workers : W_PopWake(t)
    \/ \E t \in Workers : W_PopSpurious(t)
    \/ \E t \in Workers : W_UnderflowDone(t)
    \/ \E t \in Workers : \E r \in Responses : W_GetLine(t, r)
    \/ W_Restore
    \/ W_Flush

SpecBridge == Init /\ [][NextBridge]_vars

(***************************************************************************)
(* Lifecycle properties of the bridge, under SpecBridge                    *)
(***************************************************************************)

\* the program state of the bridge, without the observers
progvars == <<qvars, ivars, buffer_, hasCallback, state, wpc, op, wout,
              cinBuf, coutBuf, oldInBuf_, oldOutBuf_>>

\* C7: once a call to stop() has returned, the line callback is never
\* invoked again: no step taken after stop has returned delivers a line.
\* Two hosts that call stop() on a running bridge refute it: the second
\* call finds Stopping and returns while the engine thread still runs.
C7_NoCallbackAfterStop ==
    [][stopReturned => lines' = lines]_vars

\* C8 as stated: the start() calls made on one bridge spawn exactly one
\* worker in total: once a start() has found the bridge not Idle and
\* returned, one worker has been spawned.  A start() that comes after a
\* stop() on a bridge never started refutes it: no worker is ever spawned.
C8_ExactlyOneWorker ==
    startIgnored => nspawn = 1

\* C8 amended: a worker is spawned only by a start() that finds Idle, which
\* leaves the bridge Running; never more than one worker is spawned over
\* the life of the instance, exactly one once the bridge has been Running
\* and none only when stop() came before every start(); a start() that
\* finds any other state changes nothing.
C8_StartIdempotent ==
    [][ /\ nspawn' <= 1
        /\ nspawn' # nspawn =>
              /\ state = "Idle" /\ state' = "Running"
              /\ nspawn = 0 /\ wpc = "unborn" /\ wpc' = "redirect"
        /\ state # "Idle" => nspawn' = nspawn
        /\ wpc' = "redirect" /\ wpc # "redirect" => nspawn' = nspawn + 1
        /\ state' = "Running" => nspawn' = 1
        /\ (state' # "Idle" /\ nspawn' = 0) =>
              (nshutdown' = 1 /\ wpc' = "unborn")
        /\ (startIgnored' /\ ~startIgnored) =>
              /\ state # "Idle"
              /\ UNCHANGED progvars ]_vars

\* C8 witness: one worker was spawned, a later start() found the bridge not
\* Idle and returned, and the engine thread has come to the end of its run
C8_Witness ==
    /\ nspawn = 1
    /\ startIgnored
    /\ wpc = "exited"

\* C9: stop is idempotent: over the life of the instance the shutdown
\* sequence (terminating command, close) runs at most once and the worker
\* is joined at most once; a bridge that is Stopped has run both exactly
\* once; and a stop() that finds Stopping or Stopped begins no shutdown and
\* changes no state.
C9_StopIdempotent ==
    [][ /\ njoin' <= 1
        /\ nshutdown' <= 1
        /\ nclose' <= 1
        /\ state' = "Stopped" =>
              (njoin' = 1 /\ nshutdown' = 1 /\ nclose' = 1)
        /\ state \in {"Stopping", "Stopped"} =>
              /\ nshutdown' = nshutdown
              /\ \A t \in Hosts :
                    op'[t] = "stop_push" => op[t] = "stop_push"
        /\ (stopIgnored' /\ ~stopIgnored) =>
              /\ state \in {"Stopping", "Stopped"}
              /\ UNCHANGED progvars ]_vars

\* C9 witness: a started bridge is Stopped after one join, and another
\* stop() found the shutdown begun and returned
C9_Witness ==
    /\ state = "Stopped"
    /\ nspawn = 1
    /\ njoin = 1
    /\ stopIgnored

\* C10 as stated: a sendCommand issued in state Stopping or Stopped leaves
\* the queue unchanged.  A sendCommand issued in Stopping before stop has
\* closed the queue refutes it: its command is enqueued.
C10_SendAfterStopBegunDrops ==
    [][ \A t \in Hosts :
           (op[t] = "send" /\ late[t] /\ pc[t] = "push_cs"
              /\ pc'[t] # "push_cs")
           => queue_' = queue_ ]_vars

\* C10 amended: a sendCommand whose push takes the queue's lock once stop
\* has closed the queue drops its command: the queue is unchanged, nothing
\* is left for the engine to read, and the caller returns without waiting;
\* and the queue is closed whenever the bridge is Stopped, so that every
\* sendCommand issued in Stopped is one of these.
C10_SendAfterCloseDrops ==
    [][ /\ \A t \in Hosts :
              (op[t] = "send" /\ closed_ /\ pc[t] = "push_cs"
                 /\ pc'[t] # "push_cs")
              => /\ queue_' = queue_
                 /\ closed_' = closed_
                 /\ Delivered' \o queue_' = Delivered \o queue_
                 /\ pc'[t] = "idle"
                 /\ op'[t] = "none"
                 /\ UNCHANGED <<accepted, state, wpc, readLines, lines>>
        /\ state' = "Stopped" => closed_'
        /\ \A t \in Hosts :
              (op'[t] = "send" /\ op[t] # "send" /\ state = "Stopped")
              => accepted' = accepted
      ]_vars

\* C10 witness: a sendCommand issued after stop had begun was dropped, and
\* the bridge is Stopped with nothing queued
C10_Witness ==
    /\ state = "Stopped"
    /\ ndropped > 0
    /\ \E t \in Hosts : late[t] /\ op[t] = "none"
    /\ queue_ = <<>>

\* C16: in every interleaving the commands the engine thread has popped
\* are the first of the accepted commands, in the order their pushes took
\* the queue's lock, and the lines the engine loop has read are those
\* commands without their line terminators: none is read twice, none is
\* skipped, none is out of order.
C16_CommandOrder ==
    /\ IsPrefix(popped, accepted)
    /\ Len(readLines) <= Len(popped)
    /\ \A i \in 1 .. Len(readLines) : Append(readLines[i], NL) = accepted[i]

\* C16 witness: the engine loop has read the commands of two sendCommand
\* calls and then the terminating command
C16_Witness ==
    /\ Len(readLines) = 3
    /\ readLines[1] # readLines[2]
    /\ readLines[3] = QuitLine

StateRank(st) ==
    CASE st = "Idle" -> 0
      [] st = "Running" -> 1
      [] st = "Stopping" -> 2
      [] st = "Stopped" -> 3

\* C11: the lifecycle state only moves forward: no step of start,
\* sendCommand, stop or the engine thread takes it to an earlier state, and
\* once it is Stopped it stays Stopped, no worker is spawned and the engine
\* thread's position does not change.
C11_LifecycleMonotonic ==
    [][ /\ StateRank(state') >= StateRank(state)
        /\ state = "Stopped" =>
              /\ state' = "Stopped"
              /\ nspawn' = nspawn
              /\ wpc' = wpc ]_vars

\* C11 witness: the bridge went through Running and Stopping to Stopped,
\* and a start() that found it Stopped has returned
C11_Witness ==
    /\ state = "Stopped"
    /\ restartTried
    /\ nspawn = 1
    /\ njoin = 1

(***************************************************************************)
(* The bridge under fair scheduling.                                       *)
(***************************************************************************)
\* the steps by which a host thread goes on with a call it is in
HostStep(t) ==
    \/ StopPush(t)
    \/ StopClose(t)
    \/ StopJoin(t)
    \/ HostPushBody(t)
    \/ HostPushNotify(t)
    \/ HostCloseBody(t)
    \/ HostCloseNotify(t)

\* the steps of the engine thread, spurious wake-ups left out
WorkerStep ==
    \/ W_Redirect
    \/ W_Write
    \/ W_BannerFlush
    \/ \E t \in Workers : W_Underflow(t)
    \/ \E t \in Workers : W_PopBody(t)
    \/ \E t \in Workers : W_PopWake(t)
    \/ \E t \in Workers : W_UnderflowDone(t)
    \/ \E t \in Workers : \E r \in Responses : W_GetLine(t, r)
    \/ W_Restore
    \/ W_Flush

\* the host of one run: one thread calls start() and then, on the Running
\* bridge, stop(); the other thread calls sendCommand at any time
Lifecycler == "p1"
Sender == "p2"

NextStop ==
    \/ state = "Idle" /\ Start(Lifecycler)
    \/ state = "Running" /\ Stop(Lifecycler)
    \/ \E text \in Texts : SendCommand(Sender, text)
    \/ \E t \in Hosts : StopPush(t)
    \/ \E t \in Hosts : StopClose(t)
    \/ \E t \in Hosts : StopJoin(t)
    \/ \E t \in Hosts : HostPushBody(t)
    \/ \E t \in Hosts : HostPushNotify(t)
    \/ \E t \in Hosts : HostCloseBody(t)
    \/ \E t \in Hosts : HostCloseNotify(t)
    \/ W_Redirect
    \/ W_Write
    \/ W_BannerFlush
    \/ \E t \in Workers : W_Underflow(t)
    \/ \E t \in Workers : W_PopBody(t)
    \/ \E t \in Workers : W_PopWake(t)
    \/ \E t \in Workers : W_PopSpurious(t)
    \/ \E t \in Workers : W_UnderflowDone(t)
    \/ \E t \in Workers : \E r \in Responses : W_GetLine(t, r)
    \/ W_Restore
    \/ W_Flush

\* a thread that can run does run, and a thread that finds the mutex free
\* again and again does take it; no host is made to call start, sendCommand
\* or stop, and no spurious wake-up is promised
SpecStop ==
    /\ Init /\ [][NextStop]_vars
    /\ WF_vars(WorkerStep)
    /\ \A t \in Hosts : SF_vars(HostStep(t))

\* C12: under fair scheduling every stop() that begins the shutdown of a
\* started bridge returns with the state Stopped, whatever the engine
\* thread and the other host thread are doing when it is called.
C12_StopTerminates ==
    \A t \in Hosts :
        (op[t] = "stop_push" /\ nspawn = 1) ~> (state = "Stopped" /\ op[t] = "none")

\* C12 witness: stop has begun while the engine thread waits in pop on the
\* empty queue and the other host thread is inside a sendCommand
C12_Witness ==
    /\ state = "Stopping"
    /\ nspawn = 1
    /\ pc["w"] = "pop_wait" /\ "w" \in cv_
    /\ queue_ = <<>>
    /\ \E t \in Hosts : op[t] = "stop_push"
    /\ \E t \in Hosts : op[t] = "send" /\ pc[t] = "push_cs"

(***************************************************************************)
(* The queue with several consumers, under fair scheduling.                *)
(***************************************************************************)
\* the thread that pushes when several consumers share the queue
Feeder == "p1"

\* the feeder pushes a value it has not pushed before
FeederPush(t) ==
    /\ npush < MaxFeed
    /\ PushLock(t, <<npush + 1>>)
    /\ ObservePushLock(<<npush + 1>>)
    /\ UNCHANGED nonq

\* close is called once
MultiClose(t) == nclose < 1 /\ CloserClose(t)

NextMulti ==
    \/ FeederPush(Feeder)
    \/ ProducerBody(Feeder)
    \/ ProducerNotify(Feeder)
    \/ \E t \in Closers : MultiClose(t)
    \/ \E t \in Closers : CloserBody(t)
    \/ \E t \in Closers : CloserNotify(t)
    \/ \E t \in Poppers : ConsumerPop(t)
    \/ \E t \in Poppers : ConsumerBody(t)
    \/ \E t \in Poppers : ConsumerWake(t)
    \/ \E t \in Poppers : ConsumerSpurious(t)
    \/ \E t \in Poppers : ConsumerTake(t)

\* the steps by which a thread goes on with the queue operation it is in
PushStep(t) == ProducerBody(t) \/ ProducerNotify(t)
CloseStep(t) == CloserBody(t) \/ CloserNotify(t)
PopStep(t) == ConsumerBody(t) \/ ConsumerWake(t) \/ ConsumerTake(t)

\* a thread inside an operation goes on, and takes the mutex when it is
\* free again and again; no thread is made to begin an operation, and no
\* spurious wake-up is promised
SpecMulti ==
    /\ Init /\ [][NextMulti]_vars
    /\ SF_vars(PushStep(Feeder))
    /\ \A t \in Closers : SF_vars(CloseStep(t))
    /\ \A t \in Poppers : SF_vars(PopStep(t))

\* C13: a pop returns only when the queue is closed or holds an item (it
\* returns false only when closed and empty, an item otherwise); once the
\* queue is closed every thread waiting in pop returns; and a thread
\* waiting in pop while an item is queued returns unless the other
\* consumers take every item first.
C13_PopBlocksUntilItemOrClose ==
    /\ [][\A t \in Poppers :
            (pc[t] \in {"pop_cs", "pop_wait"} /\ pc'[t] = "pop_ret") =>
                /\ pc[t] = "pop_cs"
                /\ closed_ \/ queue_ # <<>>
                /\ ret'[t] = (queue_ # <<>>)]_vars
    /\ [][\A t \in Poppers :
            (pc[t] = "pop_cs" /\ ~closed_ /\ queue_ = <<>>
               /\ pc'[t] # "pop_cs") =>
                (pc'[t] = "pop_wait" /\ t \in cv_')]_vars
    /\ \A t \in Poppers :
          (pc[t] = "pop_wait" /\ (closed_ \/ queue_ # <<>>))
             ~> (pc[t] = "pop_ret" \/ (~closed_ /\ queue_ = <<>>))

\* C13 witness: the queue is closed and empty while both consumers are
\* still blocked in pop, before close has notified them
C13_Witness ==
    /\ closed_
    /\ queue_ = <<>>
    /\ \A t \in Poppers : pc[t] = "pop_wait" /\ t \in cv_

(***************************************************************************)
(* The closed flag.                                                        *)
(***************************************************************************)
\* C14: no step of push, pop, close or closed() takes closed_ from true to
\* false, and a close() that runs on a closed queue leaves the items and
\* the flag exactly as they were, both in its locked section and in its
\* notification.
C14_ClosedMonotonic ==
    [][ /\ closed_ => closed_'
        /\ \A t \in Closers :
              (closed_ /\ pc[t] \in {"close_cs", "close_notify"}
                 /\ pc'[t] # pc[t])
              => (queue_' = queue_ /\ closed_' = closed_)
        /\ \A t \in Closers :
              (pc[t] = "closed_cs" /\ pc'[t] # "closed_cs")
              => (ret'[t] = closed_ /\ queue_' = queue_ /\ closed_' = closed_)
      ]_vars

\* C14 witness: close has run twice on a queue that still holds items, and
\* closed() has since returned true
C14_Witness ==
    /\ nclose = 2
    /\ pc["cl"] = "idle"
    /\ ret["cl"]
    /\ closed_
    /\ queue_ # <<>>

(***************************************************************************)
(* Several consumers.                                                      *)
(***************************************************************************)
\* the set of the elements of a sequence
Range(q) == {q[i] : i \in 1 .. Len(q)}

NoRepeat(q) == \A i, j \in 1 .. Len(q) : q[i] = q[j] => i = j

\* the consumers to which a pop has just returned an item
Holding == {t \in Poppers : pc[t] = "pop_ret" /\ ret[t]}

\* the number of items pop has returned so far
NumReturned == Len(popped) + Cardinality(Holding)

\* a consumer is inside pop
InPop(t) == pc[t] \in {"pop_cs", "pop_wait"}

\* C19: with two consumers, the items already recorded, the items two pops
\* have just returned, the items queued and the item of a push holding the
\* lock are pairwise different and are together the accepted items: each
\* accepted item is returned by at most one pop and none is lost.  Under
\* fair scheduling, while an item is queued and a consumer is inside pop
\* a further item is returned, and a consumer inside pop on a closed empty
\* queue returns false.
C19_ExactlyOnePop ==
    /\ [](/\ NoRepeat(accepted)
          /\ NoRepeat(popped \o queue_ \o Pending)
          /\ Cardinality({out[t] : t \in Holding}) = Cardinality(Holding)
          /\ {out[t] : t \in Holding} \cap Range(popped \o queue_ \o Pending) = {}
          /\ {out[t] : t \in Holding} \cup Range(popped \o queue_ \o Pending)
                = Range(accepted))
    /\ \A n \in 0 .. MaxFeed :
          (queue_ # <<>> /\ NumReturned = n /\ \E t \in Poppers : InPop(t))
             ~> (NumReturned > n)
    /\ \A t \in Poppers :
          (closed_ /\ queue_ = <<>> /\ InPop(t))
             ~> (pc[t] = "pop_ret" /\ ~ret[t])

\* C19 witness: each of the two consumers has received an item, the two
\* items differ, and a pop has returned false after close
C19_Witness ==
    /\ out["c1"] # NoValue
    /\ out["c2"] # NoValue
    /\ out["c1"] # out["c2"]
    /\ Len(popped) = 2
    /\ closed_
    /\ eofSeen

(***************************************************************************)
(* One run of the engine that may end with a thrown failure.               *)
(***************************************************************************)
NextRun ==
    \/ NextStop
    \/ W_Throw

SpecRun == Init /\ [][NextRun]_vars

\* the run of RunStockfishUCI is inside the scope of its StreamRedirector
InScope == wpc \in {"banner", "read", "write", "restore"}

\* C18: std::cin and std::cout are bound to the adapters exactly while the
\* run is inside the redirection scope, and when the run has ended, by
\* return or by a thrown failure, they are bound again to the buffers they
\* had when the scope was entered.
C18_RedirectionRestored ==
    /\ InScope =>
          /\ cinBuf = "inBuf" /\ coutBuf = "outBuf"
          /\ oldInBuf_ = "stdin" /\ oldOutBuf_ = "stdout"
    /\ ~InScope => (cinBuf = "stdin" /\ coutBuf = "stdout")

\* C18 witness: the run threw, its stack was unwound and the thread has
\* ended with the bindings restored
C18_Witness ==
    /\ threw
    /\ wpc = "exited"
    /\ cinBuf = "stdin" /\ coutBuf = "stdout"

====
